---- MODULE Spec2Model ----
(***************************************************************************)
(* ECAREClassifier (classifier.py) and its caller (app.py).                *)
(*                                                                         *)
(* A Python str is a tuple of one-character strings, so that split(),      *)
(* lower(), len() and the substring test `in` are computed, not assumed.   *)
(* A Python dict or Counter is a tuple of <<key, value>> pairs in          *)
(* insertion order; keyword_index, whose key order only shows in print(),  *)
(* is a function from keyword to the list of its codes.                    *)
(***************************************************************************)
EXTENDS Integers, Sequences, FiniteSets, TLC

VARIABLES taxonomy_df, hashSeed, classifier, taxonomy_dict, keyword_index,
          parent_codes, code_matches, call, result, trace, repeated

vars == <<taxonomy_df, hashSeed, classifier, taxonomy_dict, keyword_index,
          parent_codes, code_matches, call, result, trace, repeated>>

----------------------------------------------------------------------------
(* Bounds of the model *)

MaxRows == 2

MaxCodes == 4

MaxListLen == 4

----------------------------------------------------------------------------
(* Program constants *)

MinWordLen == 3

PhraseBonus == 5

DescriptionBonus == 10

DefaultTopN == 15

KeywordsShown == 5

----------------------------------------------------------------------------
(* str *)

UpperChars == <<"A", "B", "C", "D", "E", "F", "G", "H", "I", "J", "K", "L", "M",
                "N", "O", "P", "Q", "R", "S", "T", "U", "V", "W", "X", "Y", "Z">>

LowerChars == <<"a", "b", "c", "d", "e", "f", "g", "h", "i", "j", "k", "l", "m",
                "n", "o", "p", "q", "r", "s", "t", "u", "v", "w", "x", "y", "z">>

DigitChars == {"0", "1", "2", "3", "4", "5", "6", "7", "8", "9"}

Range(s) == {s[i] : i \in DOMAIN s}

UpperSet == Range(UpperChars)

IsUpper(c) == c \in UpperSet

IsDigit(c) == c \in DigitChars

IsSpace(c) == c = " "

\* the lower-case letter of every upper-case letter
LowerCase ==
    [c \in UpperSet |->
        LowerChars[CHOOSE i \in DOMAIN UpperChars : UpperChars[i] = c]]

ToLower(c) == IF c \in DOMAIN LowerCase THEN LowerCase[c] ELSE c

\* str.lower()
Lower(s) == [i \in DOMAIN s |-> ToLower(s[i])]

RECURSIVE SplitFrom(_, _, _)
SplitFrom(s, i, cur) ==
    IF i > Len(s)
    THEN IF cur = <<>> THEN <<>> ELSE <<cur>>
    ELSE IF IsSpace(s[i])
         THEN IF cur = <<>>
              THEN SplitFrom(s, i + 1, <<>>)
              ELSE <<cur>> \o SplitFrom(s, i + 1, <<>>)
         ELSE SplitFrom(s, i + 1, Append(cur, s[i]))

\* str.split(): the maximal runs of non-whitespace characters
Split(s) == SplitFrom(s, 1, <<>>)

\* sub in s
Contains(sub, s) ==
    \E i \in 0..(Len(s) - Len(sub)) : \A j \in DOMAIN sub : s[i + j] = sub[j]

\* [f(x) for x in s]
Map(F(_), s) == [i \in DOMAIN s |-> F(s[i])]

\* x in s, for a list s
InList(x, s) == \E i \in DOMAIN s : s[i] = x

\* float('nan'), what pandas gives for an empty cell: the one description
\* that is not a str
NaN == <<"NaN">>

\* isinstance(description, str)
IsStr(d) == d # NaN

----------------------------------------------------------------------------
(* set *)

RECURSIVE SetToSeq(_)
SetToSeq(S) ==
    IF S = {} THEN <<>>
    ELSE LET x == CHOOSE y \in S : TRUE
         IN  <<x>> \o SetToSeq(S \ {x})

Reverse(s) == [i \in DOMAIN s |-> s[Len(s) + 1 - i]]

\* list(set(...)): the order is fixed by the process's string hash seed
ListOfSet(S) == IF hashSeed = 0 THEN SetToSeq(S) ELSE Reverse(SetToSeq(S))

----------------------------------------------------------------------------
(* The strings of the model *)

S_tips == <<"t", "i", "p", "s">>

S_tip == <<"t", "i", "p">>

S_tipped == <<"t", "i", "p", "p", "e", "d">>

S_new == <<"n", "e", "w">>

S_fly == <<"f", "l", "y">>

S_desc == <<"d", "e", "s", "c">>

S_empty == <<>>

S_flight_physics ==
    <<"f", "l", "i", "g", "h", "t", " ", "p", "h", "y", "s", "i", "c", "s">>

S_over == <<"o", "v", "e", "r">>

S_Over_Wing_Tips ==
    <<"O", "v", "e", "r", " ", "W", "i", "n", "g", " ", "T", "i", "p", "s">>

S_fly_over == <<"f", "l", "y", " ", "o", "v", "e", "r">>

S_new_flight_physics ==
    <<"n", "e", "w", " ", "f", "l", "i", "g", "h", "t", " ",
      "p", "h", "y", "s", "i", "c", "s">>

S_WING_Tips == <<"W", "I", "N", "G", " ", "T", "i", "p", "s">>

C_A == <<"A", ".">>

C_A1 == <<"A", "1", ".">>

C_A2 == <<"A", "2", ".">>

C_A1_01 == <<"A", "1", ".", "0", "1">>

C_B1_01 == <<"B", "1", ".", "0", "1">>

Phrases ==
    << <<"a", "d", "d", "i", "t", "i", "v", "e", " ",
         "m", "a", "n", "u", "f", "a", "c", "t", "u", "r", "i", "n", "g">>,
       <<"c", "o", "n", "c", "u", "r", "r", "e", "n", "t", " ",
         "e", "n", "g", "i", "n", "e", "e", "r", "i", "n", "g">>,
       <<"m", "a", "n", "u", "f", "a", "c", "t", "u", "r", "i", "n", "g", " ",
         "p", "r", "o", "c", "e", "s", "s">>,
       <<"k", "n", "o", "w", "l", "e", "d", "g", "e", " ",
         "e", "n", "g", "i", "n", "e", "e", "r", "i", "n", "g">>,
       S_flight_physics,
       <<"s", "y", "s", "t", "e", "m", "s", " ",
         "e", "n", "g", "i", "n", "e", "e", "r", "i", "n", "g">> >>

NoMatchingCodesFound ==
    <<"N", "o", " ", "m", "a", "t", "c", "h", "i", "n", "g", " ",
      "c", "o", "d", "e", "s", " ", "f", "o", "u", "n", "d">>

----------------------------------------------------------------------------
(* nlp = spacy.load("en_core_web_sm"): the tokens of a text with their      *)
(* lemma_ and pos_.  The tagger is a lexicon over the words of the model;  *)
(* an unknown word is a noun and its own lemma.                            *)

Lemma(w) ==
    CASE w = S_tips   -> S_tip
      [] w = S_tipped -> S_tip
      [] OTHER        -> w

Pos(w) ==
    CASE w = S_tipped -> "VERB"
      [] w = S_fly    -> "VERB"
      [] w = S_new    -> "ADJ"
      [] w = S_over   -> "ADP"
      [] OTHER        -> "NOUN"

Token(w) == [text |-> w, lemma_ |-> Lemma(w), pos_ |-> Pos(w)]

nlp(s) == Map(Token, Split(s))

----------------------------------------------------------------------------
(* Keyword extraction *)

LongWord(w) == Len(w) > MinWordLen

\* [word.lower() for word in s.split() if len(word) > 3]
DirectKeywords(s) == Map(Lower, SelectSeq(Split(s), LongWord))

ContentToken(t) == t.pos_ \in {"NOUN", "VERB", "ADJ"} /\ Len(t.text) > MinWordLen

TokenLemma(t) == t.lemma_

\* [token.lemma_ for token in nlp(s.lower()) if token.pos_ in [...] and len(token.text) > 3]
SpacyKeywords(s) == Map(TokenLemma, SelectSeq(nlp(Lower(s)), ContentToken))

\* [word for word in s.lower().split() if len(word) > 3]
LowerWords(s) == SelectSeq(Split(Lower(s)), LongWord)

----------------------------------------------------------------------------
(* dict and Counter: tuples of <<key, value>> in insertion order *)

Keys(d) == [i \in DOMAIN d |-> d[i][1]]

HasKey(d, k) == \E i \in DOMAIN d : d[i][1] = k

Get(d, k) == d[CHOOSE i \in DOMAIN d : d[i][1] = k][2]

\* d[k] = v: a new key goes last, an old key keeps its place
Put(d, k, v) ==
    IF HasKey(d, k)
    THEN [i \in DOMAIN d |-> IF d[i][1] = k THEN <<k, v>> ELSE d[i]]
    ELSE Append(d, <<k, v>>)

\* counter[k] += n
Add(counter, k, n) ==
    IF HasKey(counter, k) THEN Put(counter, k, Get(counter, k) + n)
    ELSE Append(counter, <<k, n>>)

----------------------------------------------------------------------------
(* Construction *)

RECURSIVE DictOfRows(_, _)
DictOfRows(rows, d) ==
    IF rows = <<>> THEN d
    ELSE DictOfRows(Tail(rows), Put(d, Head(rows)[1], Head(rows)[2]))

\* dict(zip(df["Taxonomy"], df["Description"]))
create_taxonomy_dict(df) == DictOfRows(df, <<>>)

\* the lemmas alone: the words of line 44 are left out
RowKeywordsLemmasOnly(description) == Range(SpacyKeywords(description))

\* the keywords of one row, lines 44-51
RowKeywords(description) ==
    Range(DirectKeywords(description)) \cup Range(SpacyKeywords(description))

\* lines 54-58, for the keywords of one row
IndexRow(index, keywords, code) ==
    [k \in DOMAIN index \cup keywords |->
        IF k \notin keywords THEN index[k]
        ELSE IF k \notin DOMAIN index THEN <<code>>
        ELSE IF InList(code, index[k]) THEN index[k]
        ELSE Append(index[k], code)]

RECURSIVE IndexRows(_, _)
IndexRows(rows, index) ==
    IF rows = <<>> THEN index
    ELSE LET code == Head(rows)[1]
             description == Head(rows)[2]
         IN  IF ~IsStr(description)
             THEN IndexRows(Tail(rows), index)
             ELSE IndexRows(Tail(rows),
                            IndexRow(index, RowKeywords(description), code))

create_keyword_index(df) == IndexRows(df, <<>>)

\* re.match(r'^[A-Z]\.$', code)
IsRootCode(code) == Len(code) = 2 /\ IsUpper(code[1]) /\ code[2] = "."

\* re.match(r'^[A-Z][0-9]+\.$', code)
IsBranchCode(code) ==
    /\ Len(code) >= 3
    /\ IsUpper(code[1])
    /\ \A i \in 2..(Len(code) - 1) : IsDigit(code[i])
    /\ code[Len(code)] = "."

\* re.match(r'^[A-Z][0-9]+\.[0-9]+$', code)
IsLeafCode(code) ==
    /\ Len(code) >= 4
    /\ IsUpper(code[1])
    /\ \E p \in 3..(Len(code) - 1) :
          /\ code[p] = "."
          /\ \A i \in 2..(p - 1) : IsDigit(code[i])
          /\ \A i \in (p + 1)..Len(code) : IsDigit(code[i])

\* code[0] + "."
RootOf(code) == <<code[1], ".">>

\* code.split(".")[0] + "."
BranchOf(code) ==
    SubSeq(code, 1, CHOOSE p \in DOMAIN code :
                        code[p] = "." /\ \A i \in 1..(p - 1) : code[i] # ".")

\* a leaf filed under code[0] + ".", the parent of a branch
ParentStepLeafUnderRoot(dict, parents, code) ==
    IF IsRootCode(code)
    THEN Put(parents, code, <<>>)
    ELSE IF (IsBranchCode(code) \/ IsLeafCode(code)) /\ HasKey(parents, RootOf(code))
    THEN Put(parents, RootOf(code), Append(Get(parents, RootOf(code)), code))
    ELSE parents

\* one turn of the loop of lines 72-87
ParentStep(dict, parents, code) ==
    IF IsRootCode(code)
    THEN Put(parents, code, <<>>)
    ELSE IF IsBranchCode(code)
    THEN IF HasKey(parents, RootOf(code))
         THEN Put(parents, RootOf(code), Append(Get(parents, RootOf(code)), code))
         ELSE parents
    ELSE IF IsLeafCode(code)
    THEN IF HasKey(dict, BranchOf(code))
         THEN LET made == IF HasKey(parents, BranchOf(code)) THEN parents
                          ELSE Put(parents, BranchOf(code), <<>>)
              IN  Put(made, BranchOf(code),
                      Append(Get(made, BranchOf(code)), code))
         ELSE parents
    ELSE parents

RECURSIVE ParentLoop(_, _, _)
ParentLoop(dict, codes, parents) ==
    IF codes = <<>> THEN parents
    ELSE ParentLoop(dict, Tail(codes), ParentStep(dict, parents, Head(codes)))

identify_parent_codes(dict) == ParentLoop(dict, Keys(dict), <<>>)

----------------------------------------------------------------------------
(* classify_text *)

\* the tally of the call before, kept instead of a new Counter()
StaleCounter == code_matches

\* Counter(), line 108
Counter == <<>>

\* counter[code], 0 for a code the counter does not hold
Score(counter, code) == IF HasKey(counter, code) THEN Get(counter, code) ELSE 0

\* lines 114-115 with a share for the branch of a leaf
RECURSIVE CountCodesBoosted(_, _)
CountCodesBoosted(counter, codes) ==
    IF codes = <<>> THEN counter
    ELSE LET code == Head(codes)
             own == Add(counter, code, 1)
         IN  CountCodesBoosted(
                 IF IsLeafCode(code) /\ HasKey(taxonomy_dict, BranchOf(code))
                 THEN Add(own, BranchOf(code), 1)
                 ELSE own,
                 Tail(codes))

\* lines 114-115
RECURSIVE CountCodes(_, _)
CountCodes(counter, codes) ==
    IF codes = <<>> THEN counter
    ELSE CountCodes(Add(counter, Head(codes), 1), Tail(codes))

\* lines 111-115
RECURSIVE CountKeywords(_, _)
CountKeywords(counter, keywords) ==
    IF keywords = <<>> THEN counter
    ELSE CountKeywords(
             IF Head(keywords) \in DOMAIN keyword_index
             THEN CountCodes(counter, keyword_index[Head(keywords)])
             ELSE counter,
             Tail(keywords))

\* phrase.lower(), for the phrases of lines 122-129
LowerPhrases == Map(Lower, Phrases)

\* the phrases of lines 126-132 that one description earns a bonus for
PhrasesFound(description_lower, text_lower) ==
    IF \E i \in DOMAIN LowerPhrases : Contains(LowerPhrases[i], description_lower)
    THEN SelectSeq(LowerPhrases,
                   LAMBDA phrase : /\ Contains(phrase, description_lower)
                                   /\ Contains(phrase, text_lower))
    ELSE <<>>

\* lines 120-132, over the items of a dict whose descriptions are str
RECURSIVE CountPhrases(_, _, _)
CountPhrases(counter, items, text_lower) ==
    IF items = <<>> THEN counter
    ELSE LET n == Len(PhrasesFound(Lower(Head(items)[2]), text_lower))
         IN  CountPhrases(IF n > 0 THEN Add(counter, Head(items)[1], PhraseBonus * n)
                          ELSE counter,
                          Tail(items), text_lower)

\* lines 135-138 with the test turned round: the text in the description
RECURSIVE CountDescriptionsReversed(_, _, _)
CountDescriptionsReversed(counter, items, text_lower) ==
    IF items = <<>> THEN counter
    ELSE CountDescriptionsReversed(
             IF Contains(text_lower, Lower(Head(items)[2]))
             THEN Add(counter, Head(items)[1], DescriptionBonus)
             ELSE counter,
             Tail(items), text_lower)

\* lines 135-138
RECURSIVE CountDescriptions(_, _, _)
CountDescriptions(counter, items, text_lower) ==
    IF items = <<>> THEN counter
    ELSE CountDescriptions(
             IF Contains(Lower(Head(items)[2]), text_lower)
             THEN Add(counter, Head(items)[1], DescriptionBonus)
             ELSE counter,
             Tail(items), text_lower)

\* lines 155-158: one increment for every word of the text found in the description
WordHits(desc_words, text_words) ==
    Len(SelectSeq(text_words, LAMBDA word : InList(word, desc_words)))

\* lines 147-158
RECURSIVE CountPartial(_, _, _)
CountPartial(counter, items, text_words) ==
    IF items = <<>> THEN counter
    ELSE LET n == WordHits(LowerWords(Head(items)[2]), text_words)
         IN  CountPartial(IF n > 0 THEN Add(counter, Head(items)[1], n)
                          ELSE counter,
                          Tail(items), text_words)

DropAt(s, i) == SubSeq(s, 1, i - 1) \o SubSeq(s, i + 1, Len(s))

\* sorted(counter.items(), key=count, reverse=True): stable, so equal counts
\* keep their insertion order
RECURSIVE SortedByCount(_)
SortedByCount(counter) ==
    IF counter = <<>> THEN <<>>
    ELSE LET i == CHOOSE a \in DOMAIN counter :
                      \A b \in DOMAIN counter :
                          \/ counter[b][2] < counter[a][2]
                          \/ counter[b][2] = counter[a][2] /\ a <= b
         IN  <<counter[i]>> \o SortedByCount(DropAt(counter, i))

\* [code for code, _ in counter.most_common(top_n)]
most_common(counter, top_n) ==
    IF top_n <= 0 THEN <<>>
    ELSE LET sorted == Keys(SortedByCount(counter))
         IN  SubSeq(sorted, 1, IF top_n < Len(sorted) THEN top_n ELSE Len(sorted))

\* list.remove(x): the first occurrence goes
Remove(list, x) == DropAt(list, CHOOSE i \in DOMAIN list :
                                    list[i] = x /\ \A j \in 1..(i - 1) : list[j] # x)

\* lines 185-187
RECURSIVE RemoveChildren(_, _)
RemoveChildren(simplified, children) ==
    IF children = <<>> THEN simplified
    ELSE RemoveChildren(IF InList(Head(children), simplified)
                        THEN Remove(simplified, Head(children))
                        ELSE simplified,
                        Tail(children))

\* line 183 without `parent in simplified`
SimplifyParentUnchecked(simplified, parent, children) ==
    IF \A i \in DOMAIN children :
          HasKey(taxonomy_dict, children[i]) => InList(children[i], simplified)
    THEN RemoveChildren(simplified, children)
    ELSE simplified

\* lines 183-187, for one parent
SimplifyParent(simplified, parent, children) ==
    IF /\ InList(parent, simplified)
       /\ \A i \in DOMAIN children :
             HasKey(taxonomy_dict, children[i]) => InList(children[i], simplified)
    THEN RemoveChildren(simplified, children)
    ELSE simplified

RECURSIVE SimplifyLoop(_, _)
SimplifyLoop(simplified, parents) ==
    IF parents = <<>> THEN simplified
    ELSE SimplifyLoop(SimplifyParent(simplified, Head(parents)[1], Head(parents)[2]),
                      Tail(parents))

\* _simplify_code_list: codes.copy() is the list itself, a value
simplify_code_list(codes) == SimplifyLoop(codes, parent_codes)

\* lines 197-217: the explanation of one code, as the parts of its f-string
Reason(code, text_direct, text_spacy) ==
    LET description == Get(taxonomy_dict, code)
        direct == Range(DirectKeywords(description)) \cap text_direct
        matching == IF direct # {} THEN direct
                    ELSE Range(SpacyKeywords(description)) \cap text_spacy
        shown == ListOfSet(matching)
    IN  IF matching # {}
        THEN <<code, description, "Matches keywords",
               SubSeq(shown, 1, IF Len(shown) > KeywordsShown
                                THEN KeywordsShown ELSE Len(shown))>>
        ELSE <<code, description, "Semantic match with the text content", <<>>>>

\* an explanation only for the codes that share a keyword with the text
RECURSIVE ReasonLoopMatchedOnly(_, _, _, _)
ReasonLoopMatchedOnly(reasoning, codes, text_direct, text_spacy) ==
    IF codes = <<>> THEN reasoning
    ELSE LET r == Reason(Head(codes), text_direct, text_spacy)
         IN  ReasonLoopMatchedOnly(
                 IF HasKey(taxonomy_dict, Head(codes)) /\ r[3] = "Matches keywords"
                 THEN Put(reasoning, Head(codes), r)
                 ELSE reasoning,
                 Tail(codes), text_direct, text_spacy)

\* lines 195-217
RECURSIVE ReasonLoop(_, _, _, _)
ReasonLoop(reasoning, codes, text_direct, text_spacy) ==
    IF codes = <<>> THEN reasoning
    ELSE ReasonLoop(IF HasKey(taxonomy_dict, Head(codes))
                    THEN Put(reasoning, Head(codes),
                             Reason(Head(codes), text_direct, text_spacy))
                    ELSE reasoning,
                    Tail(codes), text_direct, text_spacy)

\* _generate_reasoning: set(...) of the text's words and of its lemmas
generate_reasoning(codes, text) ==
    ReasonLoop(<<>>, codes, Range(DirectKeywords(text)), Range(SpacyKeywords(text)))

\* the items of the dict before the first description that is not a str
StrPrefix(items) ==
    IF \A i \in DOMAIN items : IsStr(items[i][2]) THEN items
    ELSE SubSeq(items, 1,
                (CHOOSE i \in DOMAIN items :
                     /\ ~IsStr(items[i][2])
                     /\ \A j \in 1..(i - 1) : IsStr(items[j][2])) - 1)

\* classify_text: what it returns, or that it raises, and its locals
classify_text(text, top_n) ==
    LET input_keywords == ListOfSet(Range(DirectKeywords(text))
                                    \cup Range(SpacyKeywords(text)))
        overlap == CountKeywords(Counter, input_keywords)
        \* description.lower() of line 121 raises AttributeError on a float
        raises == \E i \in DOMAIN taxonomy_dict : ~IsStr(taxonomy_dict[i][2])
        phrased == CountPhrases(overlap, StrPrefix(taxonomy_dict), Lower(text))
        described == CountDescriptions(phrased, taxonomy_dict, Lower(text))
        primary == most_common(described, top_n)
        fallback == primary = <<>>
        final == IF fallback THEN CountPartial(described, taxonomy_dict, LowerWords(text))
                 ELSE described
        top_codes == IF fallback THEN most_common(final, top_n) ELSE primary
        simplified == simplify_code_list(top_codes)
        reasoning == generate_reasoning(simplified, text)
    IN  IF raises
        THEN [raised |-> TRUE, codes |-> <<>>, reasoning |-> <<>>,
              code_matches |-> phrased, input_keywords |-> input_keywords,
              overlap |-> overlap, primary |-> <<>>, fallback |-> FALSE,
              top_codes |-> <<>>, simplified |-> <<>>]
        ELSE [raised |-> FALSE,
              codes |-> IF simplified = <<>> THEN <<NoMatchingCodesFound>>
                        ELSE simplified,
              reasoning |-> reasoning,
              code_matches |-> final, input_keywords |-> input_keywords,
              overlap |-> overlap, primary |-> primary, fallback |-> fallback,
              top_codes |-> top_codes, simplified |-> simplified]

----------------------------------------------------------------------------
(* The inputs of the model *)

Codes == {C_A, C_A1, C_A1_01}

\* pd.read_excel (line 14) reads an empty cell, and a cell holding the empty
\* string, as NaN: a description that is a str is never empty
Descriptions == {NaN, S_fly, S_flight_physics, S_Over_Wing_Tips}

Texts == {S_empty, S_new_flight_physics, S_WING_Tips, S_tipped, S_fly_over}

TopNs == {0, 1, DefaultTopN}

HierarchyCodes == {C_A, C_A1, C_A2, C_A1_01, C_B1_01}

SeqsUpTo(S, n) == UNION {[1..k -> S] : k \in 0..n}

\* the lists without a repeated code
Distinct(list) == \A i, j \in DOMAIN list : list[i] = list[j] => i = j

----------------------------------------------------------------------------
(* The state machine *)

NoCall == [op |-> "none", text |-> <<>>, top_n |-> 0, codes |-> <<>>]

NoResult == [outcome |-> "none", codes |-> <<>>, reasoning |-> <<>>]

NoTrace == [input_keywords |-> <<>>, overlap |-> <<>>, primary |-> <<>>,
            fallback |-> FALSE, top_codes |-> <<>>, simplified |-> <<>>]

\* classifier = None (app.py), the workbook on disk and the hash seed chosen
Unbuilt ==
    /\ classifier = "None"
    /\ taxonomy_dict = <<>>
    /\ keyword_index = <<>>
    /\ parent_codes = <<>>
    /\ code_matches = <<>>
    /\ result = NoResult
    /\ trace = NoTrace
    /\ repeated = FALSE

\* the workbooks: code is the unique key of a row
Workbooks(codes, descriptions, n) ==
    {df \in SeqsUpTo(codes \X descriptions, n) :
        Distinct([i \in DOMAIN df |-> df[i][1]])}

Init ==
    /\ taxonomy_df \in Workbooks(Codes, Descriptions, MaxRows)
    /\ hashSeed \in {0, 1}
    /\ call = NoCall
    /\ Unbuilt

InitHierarchy ==
    /\ taxonomy_df \in Workbooks(HierarchyCodes, {S_desc}, MaxCodes)
    /\ hashSeed = 0
    \* the ranked list its caller will pass to _simplify_code_list
    /\ \E codes \in SeqsUpTo({taxonomy_df[i][1] : i \in DOMAIN taxonomy_df},
                             MaxListLen) :
          Distinct(codes) /\ call = [NoCall EXCEPT !.codes = codes]
    /\ Unbuilt

\* initialize_classifier() of app.py: ECAREClassifier.__init__
InitializeClassifier ==
    /\ classifier = "None"
    /\ classifier' = "ECAREClassifier"
    /\ taxonomy_dict' = create_taxonomy_dict(taxonomy_df)
    /\ keyword_index' = create_keyword_index(taxonomy_df)
    /\ parent_codes' = identify_parent_codes(create_taxonomy_dict(taxonomy_df))
    /\ call' = [call EXCEPT !.op = "__init__"]
    /\ UNCHANGED <<taxonomy_df, hashSeed, code_matches, result, trace, repeated>>

\* classifier.classify_text(text, top_n)
ClassifyText(text, top_n) ==
    /\ classifier = "ECAREClassifier"
    /\ \E r \in {classify_text(text, top_n)} :
           /\ call' = [op |-> "classify_text", text |-> text, top_n |-> top_n,
                       codes |-> <<>>]
           /\ result' = [outcome |-> IF r.raised THEN "raised" ELSE "returned",
                         codes |-> r.codes, reasoning |-> r.reasoning]
           /\ code_matches' = r.code_matches
           /\ trace' = [input_keywords |-> r.input_keywords, overlap |-> r.overlap,
                        primary |-> r.primary, fallback |-> r.fallback,
                        top_codes |-> r.top_codes, simplified |-> r.simplified]
    \* history: this call repeats the arguments of the call before it
    /\ repeated' = (call.op = "classify_text" /\ call.text = text
                                              /\ call.top_n = top_n)
    /\ UNCHANGED <<taxonomy_df, hashSeed, classifier, taxonomy_dict,
                   keyword_index, parent_codes>>

\* classifier._simplify_code_list(codes), on the ranked list of its caller
SimplifyCodeList ==
    /\ classifier = "ECAREClassifier"
    /\ call.op = "__init__"
    /\ call' = [call EXCEPT !.op = "_simplify_code_list"]
    /\ result' = [outcome |-> "returned",
                  codes |-> simplify_code_list(call.codes),
                  reasoning |-> <<>>]
    /\ UNCHANGED <<taxonomy_df, hashSeed, classifier, taxonomy_dict,
                   keyword_index, parent_codes, code_matches, trace, repeated>>

Classify == \E text \in Texts, top_n \in TopNs : ClassifyText(text, top_n)

Next == InitializeClassifier \/ Classify

NextHierarchy == InitializeClassifier \/ SimplifyCodeList

Spec == Init /\ [][Next]_vars

SpecHierarchy == InitHierarchy /\ [][NextHierarchy]_vars

----------------------------------------------------------------------------
(* The claims *)

Built == classifier = "ECAREClassifier"

Simplified == call.op = "_simplify_code_list"

Classified == call.op = "classify_text"

Returned == Classified /\ result.outcome = "returned"

\* the children of a HierarchyMap entry that exist in the taxonomy
Existing(children) ==
    {children[i] : i \in {j \in DOMAIN children : HasKey(taxonomy_dict, children[j])}}

\* a parent that is in the list with all its existing children
Complete(entry, list) ==
    /\ InList(entry[1], list)
    /\ \A child \in Existing(entry[2]) : InList(child, list)

\* C1: if a parent of the HierarchyMap and all of its children that exist in
\* the taxonomy are in the list passed to _simplify_code_list, the output holds
\* that parent and none of those children.
C1_SimplificationKeepsParentDropsChildren ==
    Simplified =>
        \A p \in DOMAIN parent_codes :
            Complete(parent_codes[p], call.codes) =>
                /\ InList(parent_codes[p][1], result.codes)
                /\ \A child \in Existing(parent_codes[p][2]) :
                       ~InList(child, result.codes)

\* C7: if a parent is absent from the list passed to _simplify_code_list, or one
\* of its existing children is, every child of that parent that was in the list
\* is still in the output.
C7_IncompleteParentKeepsChildren ==
    Simplified =>
        \A p \in DOMAIN parent_codes :
            ~Complete(parent_codes[p], call.codes) =>
                \A child \in Range(parent_codes[p][2]) :
                    InList(child, call.codes) => InList(child, result.codes)

\* C7, its case: a parent with a child missing keeps the child it has in the
\* list, in a call that simplifies another parent
C7_Witness ==
    /\ Simplified
    /\ \E p \in DOMAIN parent_codes :
          /\ InList(parent_codes[p][1], call.codes)
          /\ ~Complete(parent_codes[p], call.codes)
          /\ \E child \in Range(parent_codes[p][2]) :
                InList(child, call.codes) /\ InList(child, result.codes)
    /\ Len(result.codes) < Len(call.codes)

TaxonomyCodes == Range(Keys(taxonomy_dict))

\* the leaves of the taxonomy under a branch
LeavesOf(branch) ==
    {code \in TaxonomyCodes : IsLeafCode(code) /\ BranchOf(code) = branch}

\* how often a code is in a list
Occurrences(list, code) == Cardinality({i \in DOMAIN list : list[i] = code})

\* every leaf whose branch exists is once in the child list of that branch
LeavesFiled ==
    \A code \in TaxonomyCodes :
        IsLeafCode(code) /\ BranchOf(code) \in TaxonomyCodes =>
            /\ HasKey(parent_codes, BranchOf(code))
            /\ Occurrences(Get(parent_codes, BranchOf(code)), code) = 1

\* C5 as stated: the HierarchyMap has a key for every Level-1 and every Level-2
\* code, also a Level-2 code without leaf children, and every Level-3 code whose
\* Level-2 parent exists is exactly once in that parent's child list.
C5_KeyForEveryRootAndBranch ==
    Built =>
        /\ \A code \in TaxonomyCodes :
               IsRootCode(code) \/ IsBranchCode(code) => HasKey(parent_codes, code)
        /\ LeavesFiled

\* C5 amended: the HierarchyMap has a key for every Level-1 code and for exactly
\* the Level-2 codes that have a Level-3 child in the taxonomy, and every Level-3
\* code whose Level-2 parent exists is exactly once in that parent's child list.
C5_KeyForRootsAndBranchesWithLeaves ==
    Built =>
        /\ \A code \in TaxonomyCodes :
               /\ IsRootCode(code) => HasKey(parent_codes, code)
               /\ IsBranchCode(code) =>
                      (HasKey(parent_codes, code) <=> LeavesOf(code) # {})
        /\ LeavesFiled

\* C5, its case: a taxonomy with a root, a branch that has a leaf and a branch
\* that has none
C5_Witness ==
    /\ Built
    /\ \E root, full, bare \in TaxonomyCodes :
          /\ IsRootCode(root) /\ IsBranchCode(full) /\ IsBranchCode(bare)
          /\ LeavesOf(full) # {} /\ LeavesOf(bare) = {}
          /\ HasKey(parent_codes, full) /\ ~HasKey(parent_codes, bare)

\* C9: every Level-2 code whose Level-1 root exists in the taxonomy is in that
\* root's child list, whatever the order of the rows.
C9_BranchFiledUnderRoot ==
    Built =>
        \A code \in TaxonomyCodes :
            IsBranchCode(code) /\ RootOf(code) \in TaxonomyCodes =>
                /\ HasKey(parent_codes, RootOf(code))
                /\ InList(code, Get(parent_codes, RootOf(code)))

\* C2 as stated: a code is a key of the reasoning iff it is one of the codes,
\* also when the placeholder is returned.
C2_ReasoningIffCodes ==
    Returned => Range(Keys(result.reasoning)) = Range(result.codes)

\* C2 amended: a code is a key of the reasoning iff it is one of the codes,
\* except when nothing matched: then the codes are the placeholder alone and the
\* reasoning is empty.
C2_ReasoningIffCodesButPlaceholder ==
    Returned =>
        IF trace.simplified = <<>>
        THEN result.codes = <<NoMatchingCodesFound>> /\ result.reasoning = <<>>
        ELSE /\ Range(Keys(result.reasoning)) = Range(result.codes)
             /\ result.codes = trace.simplified

\* C2, its case: two codes returned, one explained by keywords and one as a
\* semantic match
C2_Witness ==
    /\ Returned
    /\ Len(result.codes) = 2
    /\ \E i, j \in DOMAIN result.reasoning :
          /\ result.reasoning[i][2][3] = "Matches keywords"
          /\ result.reasoning[j][2][3] = "Semantic match with the text content"

\* the input keywords that the KeywordIndex maps to a code
KeywordHits(code) ==
    Cardinality({k \in Range(trace.input_keywords) \cap DOMAIN keyword_index :
                    InList(code, keyword_index[k])})

\* the phrases of the list that are in the description of a code and in the text
PhraseHits(code) ==
    Cardinality({i \in DOMAIN Phrases :
                    /\ Contains(Lower(Phrases[i]), Lower(Get(taxonomy_dict, code)))
                    /\ Contains(Lower(Phrases[i]), Lower(call.text))})

\* 1 when the description of a code is in the text
DescriptionHit(code) ==
    IF Contains(Lower(Get(taxonomy_dict, code)), Lower(call.text)) THEN 1 ELSE 0

\* the score of a code from its own description
OwnScore(code) ==
    KeywordHits(code) + PhraseBonus * PhraseHits(code)
        + DescriptionBonus * DescriptionHit(code)

RECURSIVE Sum(_, _)
Sum(F(_), S) ==
    IF S = {} THEN 0
    ELSE LET x == CHOOSE y \in S : TRUE IN F(x) + Sum(F, S \ {x})

\* four times the boost of the spec: half the overlap score of every leaf to its
\* branch and a quarter to its root, half that of every branch to its root
Boost4(code) ==
    LET Half(c) == 2 * Score(trace.overlap, c)
        Quarter(c) == Score(trace.overlap, c)
    IN  Sum(Half, {c \in TaxonomyCodes : IsLeafCode(c) /\ BranchOf(c) = code})
        + Sum(Quarter, {c \in TaxonomyCodes : IsLeafCode(c) /\ RootOf(c) = code})
        + Sum(Half, {c \in TaxonomyCodes : IsBranchCode(c) /\ RootOf(c) = code})

\* C3 as stated: after the keyword-overlap step every leaf adds half its overlap
\* score to its branch and a quarter to its root, every branch half to its root,
\* so that the score of a code is its own score plus that boost.
C3_HierarchicalBoost ==
    Returned /\ ~trace.fallback =>
        \A code \in TaxonomyCodes :
            4 * Score(code_matches, code) = 4 * OwnScore(code) + Boost4(code)

\* C3 amended: there is no hierarchical boost. After the keyword-overlap step
\* the score of a code is the number of input keywords indexed to it, and its
\* primary score adds 5 for every listed phrase in its description and the text
\* and 10 for its description in the text; a descendant adds nothing to it.
C3_NoHierarchicalBoost ==
    Returned =>
        \A code \in TaxonomyCodes :
            /\ Score(trace.overlap, code) = KeywordHits(code)
            /\ ~trace.fallback => Score(code_matches, code) = OwnScore(code)

\* C3, its case: a leaf with an overlap score whose branch or root is in the
\* taxonomy and has no score
C3_Witness ==
    /\ Returned /\ ~trace.fallback
    /\ \E leaf, parent \in TaxonomyCodes :
          /\ IsLeafCode(leaf)
          /\ parent \in {BranchOf(leaf), RootOf(leaf)}
          /\ Score(trace.overlap, leaf) > 0
          /\ ~HasKey(code_matches, parent)
          /\ ~InList(parent, result.codes)

\* C4: a row whose description is not a string is not fatal: the classifier is
\* built, the row gives the KeywordIndex no keyword, and every later
\* classify_text call returns a result.
C4_NonStringRowIsHarmless ==
    (\E i \in DOMAIN taxonomy_df : ~IsStr(taxonomy_df[i][2])) =>
        /\ Built =>
               \A k \in DOMAIN keyword_index :
                   \A i \in DOMAIN taxonomy_df :
                       ~IsStr(taxonomy_df[i][2]) =>
                           ~InList(taxonomy_df[i][1], keyword_index[k])
        /\ Classified => result.outcome = "returned"

\* C6: with string descriptions, classify_text on the empty string returns the
\* placeholder alone and an empty reasoning.
C6_EmptyTextGivesPlaceholder ==
    (/\ Classified
     /\ call.text = <<>>
     /\ \A i \in DOMAIN taxonomy_df : IsStr(taxonomy_df[i][2]))
    => /\ result.outcome = "returned"
       /\ result.codes = <<NoMatchingCodesFound>>
       /\ result.reasoning = <<>>

\* C6, its case: the empty string classified against two string descriptions,
\* for a positive top_n
C6_Witness ==
    /\ Returned
    /\ call.text = <<>>
    /\ call.top_n > 0
    /\ Len(taxonomy_dict) = 2

\* C8: a classify_text call leaves taxonomy_dict, keyword_index and parent_codes
\* as they were, and a call that repeats the text and top_n of the call before
\* it returns the same codes in the same order and the same reasoning.
C8_ClassifyLeavesIndexAndRepeats ==
    [][call'.op = "classify_text" /\ Built =>
           /\ taxonomy_dict' = taxonomy_dict
           /\ keyword_index' = keyword_index
           /\ parent_codes' = parent_codes
           /\ (Classified /\ call'.text = call.text /\ call'.top_n = call.top_n
                  => result' = result)]_vars

\* C8, its case: a call that repeated the call before it and returned two codes
C8_Witness == Returned /\ repeated /\ Len(result.codes) = 2

====
